---------------------------- MODULE Spec2Model ----------------------------
(***************************************************************************)
(* Catalog integrity and mutation layer of the Flask library application   *)
(* (src/app.py, src/data_models.py): the authors and books tables with     *)
(* their storage constraints, and the request handlers add_author,         *)
(* add_book, home, delete_book, delete_author and seed.                    *)
(*                                                                         *)
(* Strings are sequences of one-character strings, so that strip(),        *)
(* lower(), int() and strptime() are computed on the text they receive.    *)
(* The two characters "U+00C9" and "U+00E9" stand for the capital and the  *)
(* small letter e with acute accent: Python's str.lower() folds the first  *)
(* to the second, SQLite's built-in lower() folds ASCII letters only.      *)
(*                                                                         *)
(* Spec, SeededSpec and BrowseSpec run one request at a time, each handler *)
(* as one step.  ConcurrentSpec runs two requests side by side, each       *)
(* handler split at its reads of and writes to the store and at its call   *)
(* of the remote service; inflight holds where each of the two is.         *)
(***************************************************************************)
EXTENDS Integers, Sequences, FiniteSets, TLC

VARIABLES authors, books, last, inflight

vars == <<authors, books, last, inflight>>

(***************************************************************************)
(* Text helpers                                                            *)
(***************************************************************************)
AsciiUpper ==
  <<"A","B","C","D","E","F","G","H","I","J","K","L","M",
    "N","O","P","Q","R","S","T","U","V","W","X","Y","Z">>

AsciiLower ==
  <<"a","b","c","d","e","f","g","h","i","j","k","l","m",
    "n","o","p","q","r","s","t","u","v","w","x","y","z">>

NonAsciiUpper == <<"U+00C9">>

NonAsciiLower == <<"U+00E9">>

DigitChars == <<"0","1","2","3","4","5","6","7","8","9">>

Whitespace == {" "}

IndexIn(seq, c) == CHOOSE i \in 1..Len(seq) : seq[i] = c

Occurs(seq, c) == \E i \in 1..Len(seq) : seq[i] = c

\* The lower-case letter of each ASCII capital.
AsciiFold ==
  [c \in {AsciiUpper[i] : i \in 1..Len(AsciiUpper)} |->
     AsciiLower[IndexIn(AsciiUpper, c)]]

\* The lower-case letter of each capital outside ASCII.
NonAsciiFold ==
  [c \in {NonAsciiUpper[i] : i \in 1..Len(NonAsciiUpper)} |->
     NonAsciiLower[IndexIn(NonAsciiUpper, c)]]

\* SQLite's lower(): only the 26 ASCII capitals are folded.
SqlLowerChar(c) == IF c \in DOMAIN AsciiFold THEN AsciiFold[c] ELSE c

\* Python's str.lower(): every cased character is folded.
PyLowerChar(c) ==
  IF c \in DOMAIN AsciiFold THEN AsciiFold[c]
  ELSE IF c \in DOMAIN NonAsciiFold THEN NonAsciiFold[c]
  ELSE c

sql_lower(s) == [i \in 1..Len(s) |-> SqlLowerChar(s[i])]

py_lower(s) == [i \in 1..Len(s) |-> PyLowerChar(s[i])]

RECURSIVE lstrip(_)
lstrip(s) ==
  IF s # <<>> /\ Head(s) \in Whitespace THEN lstrip(Tail(s)) ELSE s

RECURSIVE rstrip(_)
rstrip(s) ==
  IF s # <<>> /\ s[Len(s)] \in Whitespace
  THEN rstrip(SubSeq(s, 1, Len(s) - 1)) ELSE s

strip(s) == rstrip(lstrip(s))

IsDigits(s) == s # <<>> /\ \A i \in 1..Len(s) : Occurs(DigitChars, s[i])

RECURSIVE DigitsValue(_)
DigitsValue(s) ==
  IF s = <<>> THEN 0
  ELSE 10 * DigitsValue(SubSeq(s, 1, Len(s) - 1))
       + (IndexIn(DigitChars, s[Len(s)]) - 1)

\* int(text): the value of an optionally signed decimal numeral with
\* whitespace around it, or a ValueError.
parse_int(s) ==
  LET t == strip(s)
      signed == t # <<>> /\ Head(t) \in {"+", "-"}
      digits == IF signed THEN Tail(t) ELSE t
  IN  IF IsDigits(digits)
      THEN [ok |-> TRUE,
            value |-> IF signed /\ Head(t) = "-" THEN 0 - DigitsValue(digits)
                      ELSE DigitsValue(digits)]
      ELSE [ok |-> FALSE, value |-> 0]

None == <<>>

IsLeap(y) == (y % 4 = 0 /\ y % 100 # 0) \/ y % 400 = 0

DaysInMonth(y, m) ==
  IF m = 2 THEN (IF IsLeap(y) THEN 29 ELSE 28)
  ELSE IF m \in {4, 6, 9, 11} THEN 30 ELSE 31

IsDateText(v) ==
  /\ Len(v) = 10
  /\ v[5] = "-" /\ v[8] = "-"
  /\ IsDigits(SubSeq(v, 1, 4)) /\ IsDigits(SubSeq(v, 6, 7))
  /\ IsDigits(SubSeq(v, 9, 10))
  /\ LET y == DigitsValue(SubSeq(v, 1, 4))
         m == DigitsValue(SubSeq(v, 6, 7))
         d == DigitsValue(SubSeq(v, 9, 10))
     IN  y >= 1 /\ m \in 1..12 /\ d \in 1..DaysInMonth(y, m)

\* parse_date(value): None for an empty value, the date <<y, m, d>> for a
\* YYYY-MM-DD text, a ValueError otherwise.
parse_date(value) ==
  IF value = <<>> THEN [ok |-> TRUE, date |-> None]
  ELSE IF IsDateText(value)
  THEN [ok |-> TRUE,
        date |-> <<DigitsValue(SubSeq(value, 1, 4)),
                   DigitsValue(SubSeq(value, 6, 7)),
                   DigitsValue(SubSeq(value, 9, 10))>>]
  ELSE [ok |-> FALSE, date |-> None]

(***************************************************************************)
(* The store: tables authors and books with their constraints              *)
(***************************************************************************)
MaxOf(S) == CHOOSE x \in S : \A y \in S : y <= x

\* INTEGER PRIMARY KEY of SQLite: one more than the largest id in the table.
NextId(rows) == IF rows = {} THEN 1 ELSE MaxOf({r.id : r \in rows}) + 1

\* authors.name UNIQUE (binary collation: exact text).
AuthorNameUnique(as, name) == \A a \in as : a.name # name

\* books.isbn UNIQUE.
BookIsbnUnique(bs, isbn) == \A b \in bs : b.isbn # isbn

\* UNIQUE(title, author_id), exact text.
BookTitleAuthorUnique(bs, title, author_id) ==
  \A b \in bs : ~(b.title = title /\ b.author_id = author_id)

\* books.author_id REFERENCES authors(id), enforced (PRAGMA foreign_keys=ON).
AuthorIdExists(as, author_id) == \E a \in as : a.id = author_id

\* Mutant of CascadeBooks: the foreign key does not cascade.
CascadeBooks_NoCascade(bs, author_id) == bs

\* ON DELETE CASCADE: the books left once author author_id is deleted.
CascadeBooks(bs, author_id) == {b \in bs : b.author_id # author_id}

InsertAuthorOk(as, row) == AuthorNameUnique(as, row.name)

InsertBookOk(as, bs, row) ==
  /\ BookIsbnUnique(bs, row.isbn)
  /\ BookTitleAuthorUnique(bs, row.title, row.author_id)
  /\ AuthorIdExists(as, row.author_id)

(***************************************************************************)
(* The outcome of a request                                                *)
(***************************************************************************)
NoRemote == [kind |-> "not_called", status_code |-> 0,
             body |-> "none", title |-> <<>>]

Outcome(as, bs, status, exc) ==
  [authors |-> as, books |-> bs, status |-> status, exc |-> exc]

(***************************************************************************)
(* validate_isbn_title                                                     *)
(***************************************************************************)
\* What requests.get and the remote service can produce: a RequestException,
\* or a response with a status code and a body.  A 200 body is a JSON object
\* (with a title or without one), a JSON array, or not JSON at all.
RemoteTitles ==
  { <<" ","e","m","m","a"," ">>, <<"U+00C9","L","U">> }

RemoteOutcomes ==
  { [kind |-> k, status_code |-> 0, body |-> "none", title |-> <<>>] :
        k \in {"ConnectionError", "Timeout"} }
  \cup
  { [kind |-> "response", status_code |-> c, body |-> "none", title |-> <<>>] :
        c \in {404, 500} }
  \cup
  { [kind |-> "response", status_code |-> 200, body |-> "object", title |-> t] :
        t \in RemoteTitles }
  \cup
  { [kind |-> "response", status_code |-> 200, body |-> b, title |-> <<>>] :
        b \in {"object_without_title", "array", "not_json"} }

Verdict(raised, ok, exc) == [raised |-> raised, ok |-> ok, exc |-> exc]

\* Mutant of validate_isbn_title: the strict policy, which refuses the pair
\* unless the remote service answers 200.
validate_isbn_title_Strict(remote, title) ==
  IF remote.kind # "response" THEN Verdict(FALSE, FALSE, "")
  ELSE IF remote.status_code # 200 THEN Verdict(FALSE, FALSE, "")
  ELSE IF remote.body = "not_json" THEN Verdict(TRUE, FALSE, "JSONDecodeError")
  ELSE IF remote.body = "array" THEN Verdict(TRUE, FALSE, "AttributeError")
  ELSE LET ol_title == IF remote.body = "object" THEN remote.title ELSE <<>>
       IN  IF ol_title = <<>> THEN Verdict(FALSE, FALSE, "")
           ELSE IF py_lower(strip(ol_title)) # py_lower(strip(title))
           THEN Verdict(FALSE, FALSE, "")
           ELSE Verdict(FALSE, TRUE, "")

\* The (ok, error_msg) pair the function returns, or the exception that
\* leaves it: only requests.get is inside the try.
validate_isbn_title(remote, title) ==
  IF remote.kind # "response" THEN Verdict(FALSE, TRUE, "")
  ELSE IF remote.status_code # 200 THEN Verdict(FALSE, TRUE, "")
  ELSE IF remote.body = "not_json" THEN Verdict(TRUE, FALSE, "JSONDecodeError")
  ELSE IF remote.body = "array" THEN Verdict(TRUE, FALSE, "AttributeError")
  ELSE LET ol_title == IF remote.body = "object" THEN remote.title ELSE <<>>
       IN  IF ol_title = <<>> THEN Verdict(FALSE, TRUE, "")
           ELSE IF py_lower(strip(ol_title)) # py_lower(strip(title))
           THEN Verdict(FALSE, FALSE, "")
           ELSE Verdict(FALSE, TRUE, "")

(***************************************************************************)
(* add_author                                                              *)
(***************************************************************************)
\* Author.query.filter(func.lower(Author.name) == name.lower()).first():
\* the column is folded by the store, the submitted name by Python.
ExistingAuthor(as, name) == {a \in as : sql_lower(a.name) = py_lower(name)}

add_author(as, bs, req) ==
  LET name == strip(req.name)
      birth == parse_date(req.birthdate)
      death == parse_date(req.date_of_death)
      row == [id |-> NextId(as), name |-> name,
              birth_date |-> birth.date, date_of_death |-> death.date]
  IN  IF name = <<>> \/ req.birthdate = <<>>
      THEN Outcome(as, bs, "ValidationError", "")
      ELSE IF ExistingAuthor(as, name) # {}
      THEN Outcome(as, bs, "DuplicateAuthor", "")
      ELSE IF ~birth.ok \/ ~death.ok
      THEN Outcome(as, bs, "UnhandledException", "ValueError")
      ELSE IF ~InsertAuthorOk(as, row)
      THEN Outcome(as, bs, "UnhandledException", "IntegrityError")
      ELSE Outcome(as \cup {row}, bs, "Success", "")

(***************************************************************************)
(* add_book                                                                *)
(***************************************************************************)
\* Mutant of ExistingIsbn: the ISBN check finds nothing.
ExistingIsbn_Unchecked(bs, isbn) == {}

\* Book.query.filter_by(isbn=isbn).first()
ExistingIsbn(bs, isbn) == {b \in bs : b.isbn = isbn}

\* Book.query.filter(func.lower(Book.title) == title.lower(),
\*                   Book.author_id == author_id).first()
ExistingTitle(bs, title, author_id) ==
  {b \in bs : sql_lower(b.title) = py_lower(title) /\ b.author_id = author_id}

\* The handler up to the call of validate_isbn_title: the field checks and
\* the two duplicate checks.  "verify" when all of them pass.
add_book_checks(bs, req) ==
  LET isbn == strip(req.isbn)
      title == strip(req.title)
      year == parse_int(req.publication_year)
      author == parse_int(req.author_id)
      Checked(status) ==
        [status |-> status, isbn |-> isbn, title |-> title,
         publication_year |-> year.value, author_id |-> author.value]
  IN  IF \/ isbn = <<>> \/ title = <<>>
         \/ req.publication_year = <<>> \/ req.author_id = <<>>
      THEN Checked("ValidationError")
      ELSE IF ~year.ok \/ ~author.ok
      THEN Checked("ValidationError")
      ELSE IF ExistingIsbn(bs, isbn) # {}
      THEN Checked("DuplicateIsbn")
      ELSE IF ExistingTitle(bs, title, author.value) # {}
      THEN Checked("DuplicateTitleForAuthor")
      ELSE Checked("verify")

\* The request passes the field checks and both duplicate checks, so the
\* handler goes on to call validate_isbn_title.
ReachesVerifier(bs, req) == add_book_checks(bs, req).status = "verify"

\* Mutant of add_book_persist: the row is inserted before the verdict is
\* looked at.
add_book_persist_InsertFirst(as, bs, checked, remote) ==
  LET verdict == validate_isbn_title(remote, checked.title)
      row == [id |-> NextId(bs), isbn |-> checked.isbn,
              title |-> checked.title,
              publication_year |-> checked.publication_year,
              author_id |-> checked.author_id]
      stored == IF InsertBookOk(as, bs, row) THEN bs \cup {row} ELSE bs
  IN  IF verdict.raised
      THEN Outcome(as, stored, "UnhandledException", verdict.exc)
      ELSE IF ~verdict.ok
      THEN Outcome(as, stored, "ExternalMismatch", "")
      ELSE IF ~InsertBookOk(as, bs, row)
      THEN Outcome(as, bs, "UnhandledException", "IntegrityError")
      ELSE Outcome(as, stored, "Success", "")

\* The handler from the call of validate_isbn_title on: the verdict, then
\* the insert and its commit.
add_book_persist(as, bs, checked, remote) ==
  LET verdict == validate_isbn_title(remote, checked.title)
      row == [id |-> NextId(bs), isbn |-> checked.isbn,
              title |-> checked.title,
              publication_year |-> checked.publication_year,
              author_id |-> checked.author_id]
  IN  IF verdict.raised
      THEN Outcome(as, bs, "UnhandledException", verdict.exc)
      ELSE IF ~verdict.ok
      THEN Outcome(as, bs, "ExternalMismatch", "")
      ELSE IF ~InsertBookOk(as, bs, row)
      THEN Outcome(as, bs, "UnhandledException", "IntegrityError")
      ELSE Outcome(as, bs \cup {row}, "Success", "")

add_book(as, bs, req, remote) ==
  LET checked == add_book_checks(bs, req)
  IN  IF checked.status # "verify"
      THEN Outcome(as, bs, checked.status, "")
      ELSE add_book_persist(as, bs, checked, remote)

(***************************************************************************)
(* delete_book, delete_author                                              *)
(***************************************************************************)
\* Mutant of AuthorBookCount: the count is not filtered by author.
AuthorBookCount_AllBooks(bs, author_id) == Cardinality(bs)

\* Book.query.filter_by(author_id=author.id).count()
AuthorBookCount(bs, author_id) ==
  Cardinality({b \in bs : b.author_id = author_id})

\* Mutant of DeleteBookRow: every book of the same author goes.
DeleteBookRow_AllOfAuthor(bs, book) ==
  {b \in bs : b.author_id # book.author_id}

\* session.delete(book)
DeleteBookRow(bs, book) == bs \ {book}

\* session.delete(author): the row goes, and with it (ON DELETE CASCADE)
\* every book that references it.
DeleteAuthorRows(as, author_id) == {a \in as : a.id # author_id}

\* Mutant of FindBook: an id no row has falls back to the whole table.
FindBook_OrAny(bs, book_id) ==
  IF \E b \in bs : b.id = book_id THEN {b \in bs : b.id = book_id} ELSE bs

\* Book.query.get_or_404(book_id): the rows with that primary key.
FindBook(bs, book_id) == {b \in bs : b.id = book_id}

delete_book(as, bs, req) ==
  LET found == FindBook(bs, req.book_id)
  IN  IF found = {} THEN Outcome(as, bs, "NotFound", "")
      ELSE
        LET book == CHOOSE b \in found : TRUE
            author_book_count == AuthorBookCount(bs, book.author_id)
        IN  IF req.mode = "book"
            THEN Outcome(as, DeleteBookRow(bs, book), "BookDeleted", "")
            ELSE IF req.mode = "book_and_author"
            THEN IF author_book_count = 1
                 THEN Outcome(DeleteAuthorRows(as, book.author_id),
                              CascadeBooks(DeleteBookRow(bs, book),
                                           book.author_id),
                              "BookAndAuthorDeleted", "")
                 ELSE Outcome(as, DeleteBookRow(bs, book),
                              "BookDeletedAuthorKept", "")
            ELSE Outcome(as, bs, "UnhandledException", "UnboundLocalError")

delete_author(as, bs, req) ==
  IF ~AuthorIdExists(as, req.author_id) THEN Outcome(as, bs, "NotFound", "")
  ELSE Outcome(DeleteAuthorRows(as, req.author_id),
               CascadeBooks(bs, req.author_id), "AuthorDeleted", "")

(***************************************************************************)
(* seed                                                                    *)
(***************************************************************************)
authors_to_seed ==
  <<
    [name |-> <<"I","s","a","a","c"," ","A","s","i","m","o","v">>,
     birth_date |-> <<1920,1,2>>, date_of_death |-> <<1992,4,6>>],
    [name |-> <<"F","r","a","n","k"," ","H","e","r","b","e","r","t">>,
     birth_date |-> <<1920,10,8>>, date_of_death |-> <<1986,2,11>>],
    [name |-> <<"A","l","e","x"," ","H","a","l","e","y">>,
     birth_date |-> <<1921,8,11>>, date_of_death |-> <<1965,2,21>>],
    [name |-> <<"M","a","r","y"," ","S","h","e","l","l","e","y">>,
     birth_date |-> <<1797,8,30>>, date_of_death |-> <<1851,2,1>>],
    [name |-> <<"J",".","R",".","R","."," ","T","o","l","k","i","e","n">>,
     birth_date |-> <<1892,1,3>>, date_of_death |-> <<1973,9,2>>],
    [name |-> <<"G","e","o","r","g","e"," ","O","r","w","e","l","l">>,
     birth_date |-> <<1903,6,25>>, date_of_death |-> <<1950,1,21>>],
    [name |-> <<"H","a","r","p","e","r"," ","L","e","e">>,
     birth_date |-> <<1926,4,28>>, date_of_death |-> <<2016,2,19>>],
    [name |-> <<"J","."," ","D","."," ","S","a","l","i","n","g","e","r">>,
     birth_date |-> <<1919,1,1>>, date_of_death |-> <<2010,1,27>>]
  >>

books_to_seed ==
  <<
    [isbn |-> <<"9","7","8","0","5","5","3","2","9","3","3","5","7">>,
     title |-> <<"F","o","u","n","d","a","t","i","o","n">>,
     publication_year |-> 1951,
     author_name |-> <<"I","s","a","a","c"," ","A","s","i","m","o","v">>],
    [isbn |-> <<"9","7","8","0","4","4","1","1","7","2","7","1","9">>,
     title |-> <<"D","u","n","e">>,
     publication_year |-> 1965,
     author_name |-> <<"F","r","a","n","k"," ","H","e","r","b","e","r","t">>],
    [isbn |-> <<"9","7","8","0","3","4","5","3","5","0","6","8","8">>,
     title |-> <<"T","h","e"," ","A","u","t","o","b","i","o","g","r","a","p","h","y"," ","o","f"," ","M","a","l","c","o","l","m"," ","X",":"," ","A","s"," ","T","o","l","d"," ","t","o"," ","A","l","e","x"," ","H","a","l","e","y">>,
     publication_year |-> 1992,
     author_name |-> <<"A","l","e","x"," ","H","a","l","e","y">>],
    [isbn |-> <<"9","7","8","0","4","8","6","2","8","2","1","1","4">>,
     title |-> <<"F","r","a","n","k","e","n","s","t","e","i","n">>,
     publication_year |-> 1818,
     author_name |-> <<"M","a","r","y"," ","S","h","e","l","l","e","y">>],
    [isbn |-> <<"9","7","8","0","5","4","7","9","2","8","2","2","7">>,
     title |-> <<"T","h","e"," ","H","o","b","b","i","t",":"," ","O","r",","," ","T","h","e","r","e"," ","a","n","d"," ","B","a","c","k"," ","A","g","a","i","n">>,
     publication_year |-> 1937,
     author_name |-> <<"J",".","R",".","R","."," ","T","o","l","k","i","e","n">>],
    [isbn |-> <<"9","7","8","0","1","4","1","0","3","6","1","4","4">>,
     title |-> <<"1","9","8","4">>,
     publication_year |-> 1949,
     author_name |-> <<"G","e","o","r","g","e"," ","O","r","w","e","l","l">>],
    [isbn |-> <<"9","7","8","0","0","6","1","1","2","0","0","8","4">>,
     title |-> <<"T","o"," ","K","i","l","l"," ","a"," ","M","o","c","k","i","n","g","b","i","r","d">>,
     publication_year |-> 1960,
     author_name |-> <<"H","a","r","p","e","r"," ","L","e","e">>],
    [isbn |-> <<"9","7","8","0","2","4","1","9","5","0","4","3","2">>,
     title |-> <<"T","h","e"," ","C","a","t","c","h","e","r"," ","i","n"," ","t","h","e"," ","R","y","e">>,
     publication_year |-> 1951,
     author_name |-> <<"J","."," ","D","."," ","S","a","l","i","n","g","e","r">>]
  >>

\* Mutant of ExistingName: the seed's name check finds nothing.
ExistingName_Unchecked(as, name) == {}

\* Author.query.filter_by(name=name).first()
ExistingName(as, name) == {a \in as : a.name = name}

RECURSIVE SeedAuthors(_, _)
\* The first loop and its commit: every reference author whose exact name
\* is not stored is inserted, in order; a row the store refuses fails the
\* whole transaction.
SeedAuthors(as, i) ==
  IF i > Len(authors_to_seed) THEN [ok |-> TRUE, authors |-> as]
  ELSE LET s == authors_to_seed[i]
           row == [id |-> NextId(as), name |-> s.name,
                   birth_date |-> s.birth_date,
                   date_of_death |-> s.date_of_death]
       IN  IF ExistingName(as, s.name) # {} THEN SeedAuthors(as, i + 1)
           ELSE IF ~InsertAuthorOk(as, row)
           THEN [ok |-> FALSE, authors |-> as]
           ELSE SeedAuthors(as \cup {row}, i + 1)

\* authors_by_name[author_name].id
AuthorIdByName(as, name) == (CHOOSE a \in as : a.name = name).id

RECURSIVE SeedBooks(_, _, _)
\* The second loop and its commit: every reference book whose ISBN is not
\* stored is inserted; a row the store refuses fails the whole transaction.
SeedBooks(as, bs, i) ==
  IF i > Len(books_to_seed) THEN [ok |-> TRUE, books |-> bs]
  ELSE LET s == books_to_seed[i]
           row == [id |-> NextId(bs), isbn |-> s.isbn, title |-> s.title,
                   publication_year |-> s.publication_year,
                   author_id |-> AuthorIdByName(as, s.author_name)]
       IN  IF ExistingIsbn(bs, s.isbn) # {} THEN SeedBooks(as, bs, i + 1)
           ELSE IF ~InsertBookOk(as, bs, row)
           THEN [ok |-> FALSE, books |-> bs]
           ELSE SeedBooks(as, bs \cup {row}, i + 1)

seed(as, bs) ==
  LET seeded == SeedAuthors(as, 1)
      added == SeedBooks(seeded.authors, bs, 1)
  IN  IF ~seeded.ok
      THEN Outcome(as, bs, "UnhandledException", "IntegrityError")
      ELSE IF ~added.ok
      THEN Outcome(seeded.authors, bs, "UnhandledException", "IntegrityError")
      ELSE Outcome(seeded.authors, added.books, "Seeded", "")

(***************************************************************************)
(* home                                                                    *)
(***************************************************************************)
RECURSIVE SqlLike(_, _)
\* text LIKE pattern in SQLite: "%" stands for any run of characters, "_"
\* for any one character, and letters compare with ASCII case folded.
SqlLike(pattern, text) ==
  IF pattern = <<>> THEN text = <<>>
  ELSE IF Head(pattern) = "%"
  THEN SqlLike(Tail(pattern), text)
       \/ (text # <<>> /\ SqlLike(pattern, Tail(text)))
  ELSE IF text = <<>> THEN FALSE
  ELSE IF Head(pattern) = "_" THEN SqlLike(Tail(pattern), Tail(text))
  ELSE /\ SqlLowerChar(Head(pattern)) = SqlLowerChar(Head(text))
       /\ SqlLike(Tail(pattern), Tail(text))

\* column.ilike(pattern), rendered as lower(column) LIKE lower(pattern).
ilike(column, pattern) == SqlLike(sql_lower(pattern), sql_lower(column))

\* The listing and its no_results flag; the store is left as it is.  The
\* search term goes into the LIKE pattern as typed.  order_by decides the
\* order of the listing only, which is kept as a set here.
home(as, bs, req) ==
  LET search == strip(req.search)
      like_pattern == <<"%">> \o search \o <<"%">>
      joined == {x \in bs \X as : x[2].id = x[1].author_id}
      rows == IF search # <<>>
              THEN {x \in joined : \/ ilike(x[1].title, like_pattern)
                                   \/ ilike(x[2].name, like_pattern)
                                   \/ ilike(x[1].isbn, like_pattern)}
              ELSE joined
      listed == {x[1] : x \in rows}
      no_results == search # <<>> /\ listed = {}
  IN  [authors |-> as, books |-> bs,
       status |-> IF no_results THEN "NoResults" ELSE "Listed", exc |-> "",
       listed |-> listed, no_results |-> no_results]

(***************************************************************************)
(* Requests                                                                *)
(***************************************************************************)
\* Book and author ids 0..MaxDeleteId are offered to the delete routes; no
\* row ever has id 0.
MaxDeleteId == 1

Text_Ann == <<"A","n","n">>

Text_ann_spaced == <<" ","a","n","n"," ">>

Text_Elu == <<"U+00C9","l","u">>

Text_elu == <<"U+00E9","l","u">>

Text_isaac_asimov == <<"i","s","a","a","c"," ","a","s","i","m","o","v">>

Text_birth == <<"1","7","7","5","-","1","2","-","1","6">>

Text_death == <<"1","8","1","7","-","0","7","-","1","8">>

Text_bad_date == <<"1","7","7","5","-","1","3","-","4","0">>

AuthorForm(name, birthdate, date_of_death) ==
  [name |-> name, birthdate |-> birthdate, date_of_death |-> date_of_death]

\* Forms that are refused or fail whatever the catalog holds.
BadAuthorForms ==
  { AuthorForm(<<" ">>, Text_birth, <<>>),
    AuthorForm(Text_Ann, <<>>, <<>>),
    AuthorForm(Text_Ann, Text_bad_date, <<>>),
    AuthorForm(Text_Ann, Text_birth, Text_bad_date) }

AddAuthorRequests ==
  { AuthorForm(Text_Ann, Text_birth, <<>>),
    AuthorForm(Text_ann_spaced, Text_birth, Text_death),
    AuthorForm(Text_Elu, Text_birth, <<>>),
    AuthorForm(Text_elu, Text_birth, <<>>) }
  \cup BadAuthorForms

Text_isbn1 == <<"9","7","8","0","1","4","1","4","3","9","5","1","8">>

Text_isbn2 == <<" ","9","7","8","0","1","4","1","4","3","9","5","8","7"," ">>

Text_Emma == <<"E","m","m","a">>

Text_EMMA_spaced == <<" ","E","M","M","A">>

Text_Foundation == <<"F","o","u","n","d","a","t","i","o","n">>

Text_year == <<"1","8","1","5">>

Text_year2 == <<"1","8","1","6">>

TitleInputs == {Text_Emma, Text_Elu}

AuthorIdInputs == { <<"1">>, <<"2">> }

BookForm(isbn, title, publication_year, author_id) ==
  [isbn |-> isbn, title |-> title,
   publication_year |-> publication_year, author_id |-> author_id]

\* Forms that are refused by the field checks.
BadBookForms ==
  { BookForm(<<>>, Text_Emma, Text_year, <<"1">>),
    BookForm(Text_isbn1, <<" ">>, Text_year, <<"1">>),
    BookForm(Text_isbn1, Text_Emma, <<>>, <<"1">>),
    BookForm(Text_isbn1, Text_Emma, Text_year, <<>>),
    BookForm(Text_isbn1, Text_Emma, <<"1","8","x","5">>, <<"1">>),
    BookForm(Text_isbn1, Text_Emma, Text_year, <<"x">>) }

AddBookRequests ==
  { BookForm(Text_isbn1, t, Text_year, a) :
        t \in TitleInputs, a \in AuthorIdInputs }
  \cup
  { BookForm(Text_isbn1, Text_Emma, Text_year2, <<"1">>),
    BookForm(Text_isbn2, Text_EMMA_spaced, Text_year, <<"1">>),
    BookForm(Text_isbn2, Text_Emma, Text_year, <<"2">>),
    BookForm(Text_isbn2, Text_elu, Text_year, <<"2">>) }
  \cup BadBookForms

DeleteModes == {"book", "book_and_author", "purge"}

DeleteBookRequests ==
  { [book_id |-> b, mode |-> m] : b \in 0..MaxDeleteId, m \in DeleteModes }

DeleteAuthorRequests == { [author_id |-> a] : a \in 0..MaxDeleteId }

\* The requests made of a catalog that is also seeded.
SeededAddAuthorRequests ==
  { AuthorForm(Text_Ann, Text_birth, <<>>),
    AuthorForm(Text_isaac_asimov, Text_birth, <<>>),
    AuthorForm(Text_Ann, <<>>, <<>>) }

SeededAddBookRequests ==
  { BookForm(Text_isbn1, Text_Emma, Text_year, <<"1">>),
    BookForm(Text_isbn1, Text_Foundation, Text_year, <<"1">>),
    BookForm(Text_isbn1, Text_Emma, Text_year, <<"x">>) }

\* The search terms typed on the home page: none, blanks only, a word of a
\* reference title in small letters, a word no row holds, and the
\* underscore.
Text_foundation == <<"f","o","u","n","d","a","t","i","o","n">>

SearchInputs == { <<>>, <<" ", " ">>, Text_foundation, <<"z","z">>, <<"_">> }

HomeRequests == { [search |-> t] : t \in SearchInputs }

\* The books added to the catalog that is browsed.
BrowseAddBookRequests ==
  { BookForm(Text_isbn1, Text_Emma, Text_year, <<"1">>),
    BookForm(Text_isbn2, Text_EMMA_spaced, Text_year, <<"1">>),
    BookForm(Text_isbn2, Text_Foundation, Text_year, <<"1">>),
    BookForm(Text_isbn2, Text_Foundation, Text_year, <<"2">>),
    BookForm(Text_isbn1, Text_Emma, Text_year, <<"x">>) }

(***************************************************************************)
(* The state machine                                                       *)
(***************************************************************************)
\* A request ends: the store holds what the handler committed, and last is
\* the handler that ran, what the remote service answered it, how it ended
\* and how many book rows it removed.
\* What the request saw of the remote service.
Answer(remote) ==
  IF remote.kind = "not_called" THEN "not_called"
  ELSE IF remote.kind # "response" \/ remote.status_code # 200
  THEN "no_record"
  ELSE IF remote.body \in {"array", "not_json"} THEN "malformed"
  ELSE IF remote.body = "object" /\ remote.title # <<>> THEN "record"
  ELSE "no_record"

Done(op, remote, r) ==
  /\ authors' = r.authors
  /\ books' = r.books
  /\ inflight' = inflight
  /\ last' = [op |-> op, remote |-> Answer(remote), status |-> r.status,
              exc |-> r.exc, removed |-> Cardinality(books \ r.books)]

\* The threads of the server that handle requests side by side.
Workers == {1, 2}

\* A thread with no request.
Idle ==
  [op |-> "none", pc |-> "idle", form |-> <<>>, held |-> <<>>,
   steps |-> <<>>, verdict |-> "none", session |-> "closed",
   status |-> "", exc |-> ""]

Init ==
  /\ authors = {}
  /\ books = {}
  /\ inflight = [w \in Workers |-> Idle]
  /\ last = [op |-> "none", remote |-> "not_called", status |-> "", exc |-> "",
             removed |-> 0]

AddAuthor(requests) ==
  \E req \in requests : Done("add_author", NoRemote, add_author(authors, books, req))

\* The remote service is asked, and answers, only when the handler reaches
\* validate_isbn_title.
AddBook(requests) ==
  \E req \in requests :
    \E remote \in (IF ReachesVerifier(books, req) THEN RemoteOutcomes
                   ELSE {NoRemote}) :
      Done("add_book", remote, add_book(authors, books, req, remote))

DeleteBook ==
  \E req \in DeleteBookRequests :
    Done("delete_book", NoRemote, delete_book(authors, books, req))

DeleteAuthor ==
  \E req \in DeleteAuthorRequests :
    Done("delete_author", NoRemote, delete_author(authors, books, req))

Seed == Done("seed", NoRemote, seed(authors, books))

Home ==
  \E req \in HomeRequests : Done("home", NoRemote, home(authors, books, req))

\* The catalog under the four form handlers.
Next ==
  \/ AddAuthor(AddAuthorRequests)
  \/ AddBook(AddBookRequests)
  \/ DeleteBook
  \/ DeleteAuthor

Spec == Init /\ [][Next]_vars

\* The catalog under the four form handlers and the seed route.
SeededNext ==
  \/ AddAuthor(SeededAddAuthorRequests)
  \/ AddBook(SeededAddBookRequests)
  \/ DeleteBook
  \/ DeleteAuthor
  \/ Seed

SeededSpec == Init /\ [][SeededNext]_vars

\* The home page over a catalog that grows by the two add handlers.
BrowseNext ==
  \/ AddAuthor(SeededAddAuthorRequests)
  \/ AddBook(BrowseAddBookRequests)
  \/ Home

BrowseSpec == Init /\ [][BrowseNext]_vars

(***************************************************************************)
(* Requests side by side                                                   *)
(***************************************************************************)
\* The requests two threads make at the same time.
ConcurrentAddAuthorRequests == { AuthorForm(Text_Ann, Text_birth, <<>>) }

ConcurrentAddBookRequests ==
  { BookForm(Text_isbn1, Text_Emma, Text_year, <<"1">>),
    BookForm(Text_isbn2, Text_Emma, Text_year, <<"1">>),
    BookForm(Text_isbn2, Text_Foundation, Text_year, <<"1">>) }

\* The remote service has no record, or a record under another title.
ConcurrentRemoteOutcomes ==
  { r \in RemoteOutcomes :
      \/ r.kind = "response" /\ r.status_code = 404
      \/ r.kind = "response" /\ r.body = "object"
         /\ r.title = <<"U+00C9", "L", "U">> }

\* A request arrives at a free thread.  Its session begins a transaction
\* with its first query and keeps it until the request ends.
Free(w) == inflight[w].pc \in {"idle", "done"}

Received(op, form) ==
  [Idle EXCEPT !.op = op, !.form = form, !.session = "open"]

\* The request goes on to its next step, or ends.
Goes(rec, pc, step, held) ==
  [rec EXCEPT !.pc = pc, !.steps = rec.steps \o step, !.held = held]

Ends(rec, step, status, exc) ==
  [rec EXCEPT !.pc = "done", !.steps = rec.steps \o step, !.form = <<>>,
              !.held = <<>>, !.session = "closed",
              !.status = status, !.exc = exc]

Step(w, rec, as, bs) ==
  /\ inflight' = [inflight EXCEPT ![w] = rec]
  /\ authors' = as
  /\ books' = bs
  /\ last' = last

\* add_author up to the insert: the field checks, the duplicate query and
\* the dates.  "insert" when the handler goes on to add the row.
add_author_checks(as, req) ==
  LET name == strip(req.name)
      birth == parse_date(req.birthdate)
      death == parse_date(req.date_of_death)
      Checked(status, exc) ==
        [status |-> status, exc |-> exc, name |-> name,
         birth_date |-> birth.date, date_of_death |-> death.date]
  IN  IF name = <<>> \/ req.birthdate = <<>>
      THEN Checked("ValidationError", "")
      ELSE IF ExistingAuthor(as, name) # {}
      THEN Checked("DuplicateAuthor", "")
      ELSE IF ~birth.ok \/ ~death.ok
      THEN Checked("UnhandledException", "ValueError")
      ELSE Checked("insert", "")

\* session.add(new_author); commit(), on the table as it is by then.
add_author_insert(as, checked) ==
  LET row == [id |-> NextId(as), name |-> checked.name,
              birth_date |-> checked.birth_date,
              date_of_death |-> checked.date_of_death]
  IN  IF ~InsertAuthorOk(as, row)
      THEN [authors |-> as, status |-> "UnhandledException",
            exc |-> "IntegrityError"]
      ELSE [authors |-> as \cup {row}, status |-> "Success", exc |-> ""]

CheckAuthor(w) ==
  /\ Free(w)
  /\ \E form \in ConcurrentAddAuthorRequests :
       LET rec == Received("add_author", form)
           c == add_author_checks(authors, form)
       IN  IF c.status = "insert"
           THEN Step(w, Goes(rec, "insert", <<"name_check">>, c),
                     authors, books)
           ELSE Step(w, Ends(rec, <<"name_check">>, c.status, c.exc),
                     authors, books)

InsertAuthor(w) ==
  /\ inflight[w].pc = "insert"
  /\ LET r == add_author_insert(authors, inflight[w].held)
     IN  Step(w, Ends(inflight[w], <<"persist">>, r.status, r.exc),
              r.authors, books)

\* add_book: the field checks (add_book_checks with no row to compare
\* with) and the ISBN query.
CheckIsbn(w) ==
  /\ Free(w)
  /\ \E form \in ConcurrentAddBookRequests :
       LET rec == Received("add_book", form)
           c == add_book_checks({}, form)
       IN  IF c.status = "ValidationError"
           THEN Step(w, Ends(rec, <<>>, "ValidationError", ""),
                     authors, books)
           ELSE IF ExistingIsbn(books, c.isbn) # {}
           THEN Step(w, Ends(rec, <<"isbn_check">>, "DuplicateIsbn", ""),
                     authors, books)
           ELSE Step(w, Goes(rec, "title_check", <<"isbn_check">>, c),
                     authors, books)

\* add_book: the title query.
CheckTitle(w) ==
  /\ inflight[w].pc = "title_check"
  /\ LET rec == inflight[w]
         c == rec.held
     IN  IF ExistingTitle(books, c.title, c.author_id) # {}
         THEN Step(w, Ends(rec, <<"title_check">>,
                           "DuplicateTitleForAuthor", ""), authors, books)
         ELSE Step(w, Goes(rec, "verify", <<"title_check">>, c),
                   authors, books)

\* Mutant of AfterVerify: whatever the verdict, the handler goes on to
\* add the row.
AfterVerify_Always(verdict) == "allow"

\* What add_book makes of validate_isbn_title's result.
AfterVerify(verdict) ==
  IF verdict.raised THEN "raised"
  ELSE IF verdict.ok THEN "allow" ELSE "mismatch"

\* add_book: the call of validate_isbn_title, which touches no table.
Verify(w) ==
  /\ inflight[w].pc = "verify"
  /\ \E remote \in ConcurrentRemoteOutcomes :
       LET rec == inflight[w]
           verdict == validate_isbn_title(remote, rec.held.title)
           after == AfterVerify(verdict)
           seen == [rec EXCEPT !.verdict =
                      IF verdict.raised THEN "raised"
                      ELSE IF verdict.ok THEN "allow" ELSE "mismatch"]
       IN  IF after = "raised"
           THEN Step(w, Ends(seen, <<"verify">>, "UnhandledException",
                             verdict.exc), authors, books)
           ELSE IF after = "mismatch"
           THEN Step(w, Ends(seen, <<"verify">>, "ExternalMismatch", ""),
                     authors, books)
           ELSE Step(w, Goes(seen, "persist", <<"verify">>, rec.held),
                     authors, books)

\* session.add(new_book); commit(), on the tables as they are by then.
add_book_insert(as, bs, checked) ==
  LET row == [id |-> NextId(bs), isbn |-> checked.isbn,
              title |-> checked.title,
              publication_year |-> checked.publication_year,
              author_id |-> checked.author_id]
  IN  IF ~InsertBookOk(as, bs, row)
      THEN [books |-> bs, status |-> "UnhandledException",
            exc |-> "IntegrityError"]
      ELSE [books |-> bs \cup {row}, status |-> "Success", exc |-> ""]

PersistBook(w) ==
  /\ inflight[w].pc = "persist"
  /\ LET r == add_book_insert(authors, books, inflight[w].held)
     IN  Step(w, Ends(inflight[w], <<"persist">>, r.status, r.exc),
              authors, r.books)

\* delete_book: Book.query.get_or_404(book_id).
LoadBook(w) ==
  /\ Free(w)
  /\ \E req \in DeleteBookRequests :
       LET rec == Received("delete_book", req)
           found == FindBook(books, req.book_id)
       IN  IF found = {}
           THEN Step(w, Ends(rec, <<"load_book">>, "NotFound", ""),
                     authors, books)
           ELSE Step(w, Goes(rec, "count", <<"load_book">>,
                             [book |-> CHOOSE b \in found : TRUE,
                              mode |-> req.mode, author_book_count |-> 0]),
                     authors, books)

\* delete_book: author = book.author, then the count of the author's
\* books.  An author deleted since the book was loaded is None.
CountBooks(w) ==
  /\ inflight[w].pc = "count"
  /\ LET rec == inflight[w]
         book == rec.held.book
     IN  IF ~AuthorIdExists(authors, book.author_id)
         THEN Step(w, Ends(rec, <<"count">>, "UnhandledException",
                           "AttributeError"), authors, books)
         ELSE Step(w, Goes(rec, "delete", <<"count">>,
                           [rec.held EXCEPT !.author_book_count =
                              AuthorBookCount(books, book.author_id)]),
                   authors, books)

\* Mutant of delete_book_commit: a failure after the book's row is gone
\* leaves it gone.
delete_book_commit_NoRollback(as, bs, held, fails) ==
  IF fails THEN Outcome(as, DeleteBookRow(bs, held.book), "DeleteFailed", "")
  ELSE IF held.mode = "book"
  THEN Outcome(as, DeleteBookRow(bs, held.book), "BookDeleted", "")
  ELSE IF held.mode = "book_and_author"
  THEN IF held.author_book_count = 1
       THEN Outcome(DeleteAuthorRows(as, held.book.author_id),
                    CascadeBooks(DeleteBookRow(bs, held.book),
                                 held.book.author_id),
                    "BookAndAuthorDeleted", "")
       ELSE Outcome(as, DeleteBookRow(bs, held.book),
                    "BookDeletedAuthorKept", "")
  ELSE Outcome(as, bs, "UnhandledException", "UnboundLocalError")

\* delete_book: the try block, on the tables as they are by then, with the
\* book and the count the handler read before.  An exception inside it is
\* answered by rollback() and the generic message.
delete_book_commit(as, bs, held, fails) ==
  IF fails THEN Outcome(as, bs, "DeleteFailed", "")
  ELSE IF held.mode = "book"
  THEN Outcome(as, DeleteBookRow(bs, held.book), "BookDeleted", "")
  ELSE IF held.mode = "book_and_author"
  THEN IF held.author_book_count = 1
       THEN Outcome(DeleteAuthorRows(as, held.book.author_id),
                    CascadeBooks(DeleteBookRow(bs, held.book),
                                 held.book.author_id),
                    "BookAndAuthorDeleted", "")
       ELSE Outcome(as, DeleteBookRow(bs, held.book),
                    "BookDeletedAuthorKept", "")
  ELSE Outcome(as, bs, "UnhandledException", "UnboundLocalError")

CommitDeleteBook(w) ==
  /\ inflight[w].pc = "delete"
  /\ inflight[w].op = "delete_book"
  /\ \E fails \in BOOLEAN :
       LET r == delete_book_commit(authors, books, inflight[w].held, fails)
       IN  Step(w, Ends(inflight[w], <<"commit">>, r.status, r.exc),
                r.authors, r.books)

\* delete_author: Author.query.get_or_404(author_id).
LoadAuthor(w) ==
  /\ Free(w)
  /\ \E req \in DeleteAuthorRequests :
       LET rec == Received("delete_author", req)
       IN  IF ~AuthorIdExists(authors, req.author_id)
           THEN Step(w, Ends(rec, <<"load_author">>, "NotFound", ""),
                     authors, books)
           ELSE Step(w, Goes(rec, "delete", <<"load_author">>,
                             [author_id |-> req.author_id]),
                     authors, books)

\* delete_author: the try block, on the tables as they are by then.
delete_author_commit(as, bs, held, fails) ==
  IF fails THEN Outcome(as, bs, "DeleteFailed", "")
  ELSE Outcome(DeleteAuthorRows(as, held.author_id),
               CascadeBooks(bs, held.author_id), "AuthorDeleted", "")

CommitDeleteAuthor(w) ==
  /\ inflight[w].pc = "delete"
  /\ inflight[w].op = "delete_author"
  /\ \E fails \in BOOLEAN :
       LET r == delete_author_commit(authors, books, inflight[w].held,
                                     fails)
       IN  Step(w, Ends(inflight[w], <<"commit">>, r.status, r.exc),
                r.authors, r.books)

\* Two threads, each at any step of its request.
ConcurrentNext ==
  \E w \in Workers :
    \/ CheckAuthor(w)
    \/ InsertAuthor(w)
    \/ CheckIsbn(w)
    \/ CheckTitle(w)
    \/ Verify(w)
    \/ PersistBook(w)
    \/ LoadBook(w)
    \/ CountBooks(w)
    \/ CommitDeleteBook(w)
    \/ LoadAuthor(w)
    \/ CommitDeleteAuthor(w)

ConcurrentSpec == Init /\ [][ConcurrentNext]_vars

(***************************************************************************)
(* Properties                                                              *)
(***************************************************************************)
\* Two texts are equal under case-insensitive comparison.
SameIgnoringCase(s, t) == py_lower(s) = py_lower(t)

\* An add-author form with a name and a birth date.
AuthorFormComplete(req) == strip(req.name) # <<>> /\ req.birthdate # <<>>

\* An add-book form with every field present and both numbers well-formed.
BookFormComplete(req) ==
  /\ strip(req.isbn) # <<>> /\ strip(req.title) # <<>>
  /\ req.publication_year # <<>> /\ req.author_id # <<>>
  /\ parse_int(req.publication_year).ok /\ parse_int(req.author_id).ok

\* The catalog holds neither the ISBN nor, for the author, a title equal
\* under case-insensitive comparison.
NoDuplicateBook(bs, req) ==
  /\ \A b \in bs : b.isbn # strip(req.isbn)
  /\ \A b \in bs : b.author_id = parse_int(req.author_id).value
                   => ~SameIgnoringCase(b.title, strip(req.title))

\* The rows of the verifier's decision table.
RemoteMalformed(remote) ==
  /\ remote.kind = "response" /\ remote.status_code = 200
  /\ remote.body \in {"array", "not_json"}

RemoteHasTitle(remote) ==
  /\ remote.kind = "response" /\ remote.status_code = 200
  /\ remote.body = "object" /\ remote.title # <<>>

RemoteMismatch(remote, title) ==
  /\ RemoteHasTitle(remote)
  /\ ~SameIgnoringCase(strip(remote.title), strip(title))

\* Not found, a record without a title, unreachable, timed out.
RemoteUnknown(remote) ==
  \/ remote.kind \in {"ConnectionError", "Timeout"}
  \/ remote.kind = "response" /\ remote.status_code = 404
  \/ /\ remote.kind = "response" /\ remote.status_code = 200
     /\ remote.body = "object_without_title"

\* C1: once an author is stored under a name, add-author with any
\* letter-casing of that name is rejected as DuplicateAuthor and exactly one
\* author with that name (ignoring case) stays stored.
C1_DuplicateAuthorRejected ==
  \A req \in AddAuthorRequests :
    LET name == strip(req.name)
        r == add_author(authors, books, req)
    IN  (/\ AuthorFormComplete(req)
         /\ \E a \in authors : SameIgnoringCase(a.name, name))
        => /\ r.status = "DuplicateAuthor"
           /\ Cardinality({a \in r.authors : SameIgnoringCase(a.name, name)})
                = 1

\* C2: no two stored books share an ISBN, and add-book with a stored ISBN,
\* whatever its title, year or author, is rejected as DuplicateIsbn and
\* leaves every stored book as it was.
C2_DuplicateIsbnRejected ==
  /\ \A b1, b2 \in books : b1.isbn = b2.isbn => b1 = b2
  /\ \A req \in AddBookRequests :
       (/\ BookFormComplete(req)
        /\ \E b \in books : b.isbn = strip(req.isbn))
       => \A remote \in (IF ReachesVerifier(books, req)
                         THEN RemoteOutcomes ELSE {NoRemote}) :
            LET r == add_book(authors, books, req, remote)
            IN  /\ r.status = "DuplicateIsbn"
                /\ r.books = books
                /\ r.authors = authors

\* C2 witness: an add-book was rejected as DuplicateIsbn while a book is
\* stored.
C2_Witness ==
  last.op = "add_book" /\ last.status = "DuplicateIsbn" /\ books # {}

\* C3: when the author already has a book whose title is equal under
\* case-insensitive comparison, add-book with another ISBN is rejected as
\* DuplicateTitleForAuthor and stores no second book; the same title under
\* another author is not rejected for that reason.
C3_DuplicateTitleRejected ==
  \A req \in AddBookRequests :
    LET title == strip(req.title)
        author == parse_int(req.author_id).value
    IN  (/\ BookFormComplete(req)
         /\ \A b \in books : b.isbn # strip(req.isbn))
        => \A remote \in (IF ReachesVerifier(books, req)
                          THEN RemoteOutcomes ELSE {NoRemote}) :
             LET r == add_book(authors, books, req, remote)
             IN  IF \E b \in books : /\ b.author_id = author
                                     /\ SameIgnoringCase(b.title, title)
                 THEN r.status = "DuplicateTitleForAuthor" /\ r.books = books
                 ELSE r.status # "DuplicateTitleForAuthor"

\* C4: every stored book references a stored author, and delete-author
\* leaves no book of the deleted author behind.
C4_NoOrphanBooks ==
  /\ \A b \in books : AuthorIdExists(authors, b.author_id)
  /\ \A req \in DeleteAuthorRequests :
       LET r == delete_author(authors, books, req)
       IN  AuthorIdExists(authors, req.author_id)
           => /\ ~AuthorIdExists(r.authors, req.author_id)
              /\ \A b \in r.books : b.author_id # req.author_id
              /\ \A b \in r.books : AuthorIdExists(r.authors, b.author_id)

\* C4 witness: delete-author removed an author together with a book of
\* theirs, and other books remain.
C4_Witness ==
  /\ last.op = "delete_author" /\ last.status = "AuthorDeleted"
  /\ last.removed >= 1
  /\ books # {}

\* C5: delete-book in mode "book" removes exactly the targeted book, leaves
\* every other book and every author, the book's own author included, as
\* they were.
C5_BookOnlyKeepsAuthor ==
  \A req \in DeleteBookRequests :
    (req.mode = "book" /\ FindBook(books, req.book_id) # {})
    => LET r == delete_book(authors, books, req)
       IN  /\ r.authors = authors
           /\ r.books = {b \in books : b.id # req.book_id}
           /\ r.status = "BookDeleted"

\* C5 witness: the only book of the only author was deleted in mode "book"
\* and the author is still stored.
C5_Witness ==
  /\ last.op = "delete_book" /\ last.status = "BookDeleted"
  /\ last.removed = 1
  /\ Cardinality(authors) = 1 /\ books = {}

\* C6: delete-book in mode "book_and_author" removes the book and, when it
\* was the author's only book, the author; with two or more books the
\* author and the other books stay.
C6_BookAndAuthorIfLast ==
  \A req \in DeleteBookRequests :
    (req.mode = "book_and_author" /\ FindBook(books, req.book_id) # {})
    => LET book == CHOOSE b \in books : b.id = req.book_id
           owned == {b \in books : b.author_id = book.author_id}
           r == delete_book(authors, books, req)
       IN  /\ r.books = books \ {book}
           /\ IF Cardinality(owned) = 1
              THEN r.authors = {a \in authors : a.id # book.author_id}
              ELSE r.authors = authors

\* C6 witness: a book and its author were deleted together while another
\* author is stored.
C6_Witness ==
  /\ last.op = "delete_book" /\ last.status = "BookAndAuthorDeleted"
  /\ authors # {}

C8_VerifierTotal ==
  \A req \in AddBookRequests :
    ReachesVerifier(books, req)
    => \A remote \in RemoteOutcomes :
         LET v == validate_isbn_title(remote, strip(req.title))
         IN  /\ ~v.raised
             /\ RemoteMalformed(remote) => v.ok

\* C9: the seed run on an empty catalog stores 8 authors and 8 books, and
\* run again on what it stored it changes nothing.
C9_SeedIdempotent ==
  LET once == seed({}, {})
  IN  /\ (authors = {} /\ books = {})
         => /\ seed(authors, books).status = "Seeded"
            /\ Cardinality(seed(authors, books).authors) = 8
            /\ Cardinality(seed(authors, books).books) = 8
      /\ (authors = once.authors /\ books = once.books)
         => /\ seed(authors, books).status = "Seeded"
            /\ seed(authors, books).authors = authors
            /\ seed(authors, books).books = books
            /\ Cardinality(authors) = 8 /\ Cardinality(books) = 8

\* C9 witness: the catalog is what the seed stores into an empty one.
C9_Witness ==
  /\ last.op = "seed" /\ last.status = "Seeded"
  /\ authors = seed({}, {}).authors /\ books = seed({}, {}).books

\* C10: delete-book and delete-author with an id no row has end in NotFound
\* and change neither table.
C10_DeleteUnknownIdNotFound ==
  /\ \A req \in DeleteBookRequests :
       (\A b \in books : b.id # req.book_id)
       => LET r == delete_book(authors, books, req)
          IN  r.status = "NotFound" /\ r.authors = authors /\ r.books = books
  /\ \A req \in DeleteAuthorRequests :
       (\A a \in authors : a.id # req.author_id)
       => LET r == delete_author(authors, books, req)
          IN  r.status = "NotFound" /\ r.authors = authors /\ r.books = books

\* C10 witness: a delete ended in NotFound while rows are stored.
C10_Witness ==
  /\ last.op \in {"delete_book", "delete_author"} /\ last.status = "NotFound"
  /\ authors # {} /\ books # {}

\* The thread w ends its request by this step.
EndsNow(w, pc) == inflight[w].pc = pc /\ inflight'[w].pc = "done"

\* C11: a request that passed its duplicate check and whose row the store
\* then refuses over the same uniqueness constraint, because another
\* request inserted first, ends with the duplicate rejection of that
\* constraint and leaves the tables as they are.
C11_RaceLoserRejected ==
  [][\A w \in Workers :
       LET held == inflight[w].held
           status == inflight'[w].status
       IN  /\ (EndsNow(w, "insert") /\ ~AuthorNameUnique(authors, held.name))
              => (status = "DuplicateAuthor" /\ authors' = authors)
           /\ (EndsNow(w, "persist") /\ ~BookIsbnUnique(books, held.isbn))
              => (status = "DuplicateIsbn" /\ books' = books)
           /\ (/\ EndsNow(w, "persist")
               /\ BookIsbnUnique(books, held.isbn)
               /\ ~BookTitleAuthorUnique(books, held.title, held.author_id))
              => (status = "DuplicateTitleForAuthor" /\ books' = books)
    ]_vars

C15_ConcurrentAddSurvives ==
  [][\A w \in Workers :
       LET held == inflight[w].held
       IN  (/\ EndsNow(w, "delete") /\ inflight[w].op = "delete_book"
            /\ held.mode = "book_and_author")
           => /\ (books \ books') \subseteq {held.book}
              /\ (\E b \in books : /\ b # held.book
                                    /\ b.author_id = held.book.author_id)
                 => AuthorIdExists(authors', held.book.author_id)
    ]_vars

\* The steps of add_book that touch the store or the remote service, in
\* the order of the handler.
AddBookOrder == <<"isbn_check", "title_check", "verify", "persist">>

\* C16: the steps an add-book request has taken are an initial part of:
\* ISBN check, title check, verifier call, persist; the verifier is called
\* at most once and only after both duplicate checks passed; the persist
\* step is taken only after the verifier allowed the pair.
C16_AddBookStepOrder ==
  \A w \in Workers :
    LET rec == inflight[w]
        n == Len(rec.steps)
    IN  rec.op = "add_book"
        => /\ n <= 4 /\ rec.steps = SubSeq(AddBookOrder, 1, n)
           /\ (rec.verdict # "none") <=> (n >= 3)
           /\ n = 4 => rec.verdict = "allow"
           /\ rec.status = "ValidationError" => n = 0
           /\ rec.status = "DuplicateIsbn" => n = 1
           /\ rec.status = "DuplicateTitleForAuthor" => n = 2
           /\ rec.status = "ExternalMismatch"
              => (n = 3 /\ rec.verdict = "mismatch")
           /\ rec.status = "Success" => n = 4

\* C16 witness: one add-book went through all four steps and stored its
\* book, another was stopped by the verifier.
C16_Witness ==
  \E w, v \in Workers :
    /\ inflight[w].op = "add_book" /\ inflight[w].status = "Success"
    /\ inflight[w].steps = AddBookOrder
    /\ inflight[v].op = "add_book"
    /\ inflight[v].status = "ExternalMismatch"

\* C17: a request that waits for the verifier has no transaction open on
\* the store and has not yet run a duplicate check.
C17_NoTransactionWhileVerifying ==
  \A w \in Workers :
    inflight[w].pc = "verify"
    => (inflight[w].session = "closed" /\ inflight[w].steps = <<>>)

\* A text holds a term as a substring, letter case ignored.
ContainsIgnoringCase(text, term) ==
  \E i \in 1..(Len(text) - Len(term) + 1) :
    SameIgnoringCase(SubSeq(text, i, i + Len(term) - 1), term)

\* A book matches a search term: its title, its author's name or its ISBN
\* holds the term.
BookMatches(as, b, term) ==
  \/ ContainsIgnoringCase(b.title, term)
  \/ ContainsIgnoringCase(b.isbn, term)
  \/ \E a \in as : a.id = b.author_id /\ ContainsIgnoringCase(a.name, term)

\* C13: the home page sets its no-results indicator exactly when the
\* (trimmed) search term is not empty and no stored book matches it, it
\* lists exactly the matching books, and it never ends in an error; with no
\* term and an empty catalog the listing is empty and the indicator is not
\* set.
C13_NoResultsIndicator ==
  \A req \in HomeRequests :
    LET term == strip(req.search)
        r == home(authors, books, req)
        matching == {b \in books : BookMatches(authors, b, term)}
    IN  /\ r.status \in {"Listed", "NoResults"}
        /\ r.no_results <=> (term # <<>> /\ matching = {})
        /\ term # <<>> => r.listed = matching
        /\ (term = <<>> /\ books = {})
           => (r.listed = {} /\ ~r.no_results)

\* C14: no two stored authors have names equal under case-insensitive
\* comparison.
C14_AuthorNamesUniqueIgnoringCase ==
  \A a1, a2 \in authors : SameIgnoringCase(a1.name, a2.name) => a1 = a2

\* C18: add-book whose author id references no stored author stores no book
\* and ends in a failure status, not in an unhandled exception; and no
\* add-author or add-book ends in an exception raised by the insert.
C18_AddFailuresAreStatuses ==
  /\ \A req \in AddAuthorRequests :
       add_author(authors, books, req).exc # "IntegrityError"
  /\ \A req \in AddBookRequests :
       ReachesVerifier(books, req)
       => \A remote \in RemoteOutcomes :
            LET r == add_book(authors, books, req, remote)
                stored == AuthorIdExists(authors,
                                         parse_int(req.author_id).value)
            IN  /\ r.exc # "IntegrityError"
                /\ (~stored /\ ~RemoteMalformed(remote))
                   => /\ r.books = books
                      /\ r.status \notin {"Success", "UnhandledException"}

\* The rejections of an add request.
AddRejections ==
  {"ValidationError", "DuplicateAuthor", "DuplicateIsbn",
   "DuplicateTitleForAuthor", "ExternalMismatch"}

\* C19: an add-author or add-book that is rejected (a missing or malformed
\* field, a duplicate, an external mismatch) leaves both tables exactly as
\* they were.
C19_RejectedAddLeavesStore ==
  /\ \A req \in SeededAddAuthorRequests :
       LET r == add_author(authors, books, req)
       IN  r.status \in AddRejections
           => r.authors = authors /\ r.books = books
  /\ \A req \in BrowseAddBookRequests :
       \A remote \in (IF ReachesVerifier(books, req)
                      THEN RemoteOutcomes ELSE {NoRemote}) :
         LET r == add_book(authors, books, req, remote)
         IN  r.status \in AddRejections
             => r.authors = authors /\ r.books = books

\* C19 witness: an add-book was refused over an external mismatch while
\* rows are stored.
C19_Witness ==
  /\ last.op = "add_book" /\ last.status = "ExternalMismatch"
  /\ last.remote = "record"
  /\ authors # {} /\ books # {}

\* C20: from every reachable catalog the seed completes, and afterwards
\* each reference author name and each reference ISBN is stored exactly
\* once, each reference book under the author of its reference name.
C20_SeedFromAnyState ==
  LET r == seed(authors, books)
  IN  /\ r.status = "Seeded"
      /\ \A i \in 1..Len(authors_to_seed) :
           Cardinality({a \in r.authors :
                          a.name = authors_to_seed[i].name}) = 1
      /\ \A i \in 1..Len(books_to_seed) :
           LET stored == {b \in r.books : b.isbn = books_to_seed[i].isbn}
           IN  /\ Cardinality(stored) = 1
               /\ \A b \in stored :
                    \E a \in r.authors :
                      /\ a.id = b.author_id
                      /\ a.name = books_to_seed[i].author_name

=============================================================================
